---- MODULE Spec2Model ----
(***************************************************************************)
(* Model of the Hierarchical Reasoning Model package (src/src/model):      *)
(* construction of HRM, Controller, the attention blocks and the bridge,   *)
(* and the forward calls of HRM, of the attention blocks and of the bridge.*)
(* Tensors are modelled by their shapes (sequences of extents) and, where  *)
(* a claim is about data flow, by a tag <<producer, cycle>> naming the     *)
(* statement that produced the value.  Attention scores are modelled on    *)
(* one (batch element, head) slice with small integer scores.              *)
(***************************************************************************)
EXTENDS Integers, Sequences, FiniteSets, TLC

VARIABLES
    pc,                 \* position of the caller / of the running forward
    self,               \* the constructed module object (its fields)
    err,                \* the exception that ended a constructor or a call
    call,               \* arguments of the forward call in progress
    x,                  \* HRM.forward: the projected input sequence
    cycle,              \* HRM.forward: the loop variable `cycle`
    controller_state,   \* HRM.forward: local controller_state
    worker_state,       \* HRM.forward: local worker_state
    worker_input,       \* HRM.forward: local worker_input
    controller_states,  \* HRM.forward: list controller_states
    worker_states,      \* HRM.forward: list worker_states
    attention_weights,  \* HRM.forward: list attention_weights
    steps,              \* HRM.forward: statements executed, with operands
    attn,               \* forward of a block called on its own: its locals
    result,             \* the value returned by the last completed call
    flow,               \* HRM.forward: what each row of each local is computed from
    prior               \* the first HRM.forward call on the instance, as it ended

vars == <<pc, self, err, call, x, cycle, controller_state, worker_state,
          worker_input, controller_states, worker_states, attention_weights,
          steps, attn, result, flow, prior>>

----------------------------------------------------------------------------
(* Bounds of the model and the values the caller draws arguments from.     *)

MaxCycles == 2
MaxSeqLen == 2

BatchSizes == {1, 2}
LayerCounts == {0, 1, 2}
InputDims == {3}
ControllerDims == {8, 10}
WorkerDims == {1, 8, 12}
HeadCounts == {0, 1, 3, 4, 8}
AttnDims == {4, 8, 10}
ScoreVals == {0, 1}

\* Gate values are held in steps of 1 / GateScale; the values and the gate
\* pre-activations the caller's tensors and the learned maps supply.
GateScale == 4
ElemVals == {1, 3}
PreActs == {-3, -1, 0, 3}

\* Defaults fixed by the source.
DefaultNumHeads == 8
BridgeNumHeads == 8
PosMaxLen == 1000
MaskFillValue == -1000000000
ConvKernelSize == 3
ConvPadding == 1

----------------------------------------------------------------------------
(* Exceptions and shapes.                                                   *)

NoErr == [type |-> "none", at |-> "none"]
Raise(t, where) == [type |-> t, at |-> where]

\* The absent object, call or result.
None == [cls |-> "None", op |-> "none"]

Min2(a, b) == IF a <= b THEN a ELSE b
Min3(a, b, c) == Min2(a, Min2(b, c))
Max2(a, b) == IF a >= b THEN a ELSE b

\* The shape of a failed tensor operation.
BadShape == <<-1>>

\* nn.Linear(in_features, out_features) applied to a tensor of shape s.
Linear(in_features, out_features, s) ==
    IF s = BadShape \/ Len(s) = 0 \/ s[Len(s)] # in_features
    THEN BadShape
    ELSE [i \in 1..Len(s) |-> IF i = Len(s) THEN out_features ELSE s[i]]

\* nn.LayerNorm(dim) applied to a tensor of shape s.
LayerNorm(dim, s) ==
    IF s = BadShape \/ Len(s) = 0 \/ s[Len(s)] # dim THEN BadShape ELSE s

\* Broadcasting of two shapes of equal rank (elementwise operators).
Broadcastable(s, t) ==
    /\ s # BadShape /\ t # BadShape /\ Len(s) = Len(t)
    /\ \A i \in 1..Len(s) : s[i] = t[i] \/ s[i] = 1 \/ t[i] = 1

Broadcast(s, t) ==
    IF Broadcastable(s, t)
    THEN [i \in 1..Len(s) |-> IF s[i] = 1 THEN t[i] ELSE s[i]]
    ELSE BadShape

\* torch.matmul of two rank-4 tensors: batched (.., n, m) x (.., m, p).
MatMul4(s, t) ==
    IF s = BadShape \/ t = BadShape \/ Len(s) # 4 \/ Len(t) # 4 THEN BadShape
    ELSE IF s[4] # t[3] \/ ~Broadcastable(<<s[1], s[2]>>, <<t[1], t[2]>>)
    THEN BadShape
    ELSE <<Max2(s[1], t[1]), Max2(s[2], t[2]), s[3], t[4]>>

\* tensor.view(target): legal when the element count is preserved.
RECURSIVE Numel(_)
Numel(s) == IF Len(s) = 0 THEN 1 ELSE s[1] * Numel(Tail(s))

View(s, target) ==
    IF s = BadShape \/ Numel(s) # Numel(target) THEN BadShape ELSE target

\* tensor.unsqueeze(-1), tensor.unsqueeze(1), tensor.transpose(1, 2)
\* (torch dimensions count from 0: transpose(1, 2) swaps entries 2 and 3).
UnsqueezeLast(s) == IF s = BadShape THEN BadShape ELSE Append(s, 1)
Unsqueeze1(s) ==
    IF s = BadShape THEN BadShape ELSE <<s[1], 1>> \o Tail(s)
Transpose12(s) ==
    IF s = BadShape \/ Len(s) < 3 THEN BadShape
    ELSE [i \in 1..Len(s) |-> IF i = 2 THEN s[3] ELSE IF i = 3 THEN s[2] ELSE s[i]]

----------------------------------------------------------------------------
(* Constructors.  Each returns the object it builds; field `raised` holds  *)
(* the exception that left the constructor, NoErr when it returned.        *)

\* The first exception raised while building a sequence of sub-modules.
RECURSIVE FirstRaised(_)
FirstRaised(objs) ==
    IF Len(objs) = 0 THEN NoErr
    ELSE IF objs[1].raised # NoErr THEN objs[1].raised
    ELSE FirstRaised(Tail(objs))

\* A constructor whose divisibility assertion is missing.
HeadsUnchecked(dim, num_heads) == TRUE

\* controller.py MultiHeadAttention.__init__: head_dim = dim // num_heads is
\* evaluated before the assertion dim % num_heads == 0.
HeadsDivideDim(dim, num_heads) == dim % num_heads = 0

MultiHeadAttention__init__(dim, num_heads, use_gated) ==
    [cls |-> "MultiHeadAttention", dim |-> dim, num_heads |-> num_heads,
     head_dim |-> IF num_heads = 0 THEN 0 ELSE dim \div num_heads,
     use_gated |-> use_gated,
     raised |-> IF num_heads = 0
                THEN Raise("ZeroDivisionError", "MultiHeadAttention.__init__")
                ELSE IF ~HeadsDivideDim(dim, num_heads)
                THEN Raise("AssertionError", "MultiHeadAttention.__init__")
                ELSE NoErr]

\* attention.py MultiHeadAttention.__init__ (the variant without a gate).
AttnHeadsDivideDim(dim, num_heads) == dim % num_heads = 0

AttnMultiHeadAttention__init__(dim, num_heads) ==
    [cls |-> "AttnMultiHeadAttention", dim |-> dim, num_heads |-> num_heads,
     head_dim |-> IF num_heads = 0 THEN 0 ELSE dim \div num_heads,
     use_gated |-> FALSE,
     raised |-> IF num_heads = 0
                THEN Raise("ZeroDivisionError", "MultiHeadAttention.__init__")
                ELSE IF ~AttnHeadsDivideDim(dim, num_heads)
                THEN Raise("AssertionError", "MultiHeadAttention.__init__")
                ELSE NoErr]

\* controller.py Controller.__init__: one attention block per layer.
ControllerLayers(dim, num_layers, num_heads, use_gated_attention) ==
    [i \in 1..num_layers |->
        MultiHeadAttention__init__(dim, num_heads, use_gated_attention)]

Controller__init__(dim, num_layers, num_heads, use_gated_attention) ==
    LET sa == ControllerLayers(dim, num_layers, num_heads, use_gated_attention)
    IN  [cls |-> "Controller", dim |-> dim, num_layers |-> num_layers,
         num_heads |-> num_heads,
         use_gated_attention |-> use_gated_attention,
         self_attention |-> sa,
         raised |-> FirstRaised(sa)]

\* worker.py WorkerLayer.__init__ and Worker.__init__: never raise.
WorkerLayer__init__(dim, use_conv, use_gru) ==
    [cls |-> "WorkerLayer", dim |-> dim, use_conv |-> use_conv,
     use_gru |-> use_gru,
     conv_in_channels |-> IF use_conv THEN dim ELSE 0,
     raised |-> NoErr]

Worker__init__(dim, num_layers, use_conv, use_gru) ==
    [cls |-> "Worker", dim |-> dim, num_layers |-> num_layers,
     use_conv |-> use_conv, use_gru |-> use_gru,
     worker_layers |-> [i \in 1..num_layers |->
                           WorkerLayer__init__(dim, use_conv, use_gru)],
     raised |-> NoErr]

\* A head dimension taken from the largest dimension, and an assertion
\* that lets a zero head dimension pass.
CrossHeadDimOfMax(query_dim, key_dim, value_dim, num_heads) ==
    Max2(query_dim, Max2(key_dim, value_dim)) \div num_heads

HeadDimUnchecked(head_dim) == TRUE

\* attention.py CrossModuleAttention.__init__: the head dimension is the
\* floor of the smallest of the three dimensions over the head count.
CrossHeadDim(query_dim, key_dim, value_dim, num_heads) ==
    Min3(query_dim, key_dim, value_dim) \div num_heads

HeadDimPositive(head_dim) == head_dim > 0

CrossModuleAttention__init__(query_dim, key_dim, value_dim, output_dim, num_heads) ==
    LET hd == IF num_heads = 0 THEN 0
              ELSE CrossHeadDim(query_dim, key_dim, value_dim, num_heads)
    IN  [cls |-> "CrossModuleAttention",
         query_dim |-> query_dim, key_dim |-> key_dim,
         value_dim |-> value_dim, output_dim |-> output_dim,
         num_heads |-> num_heads, head_dim |-> hd,
         raised |-> IF num_heads = 0
                    THEN Raise("ZeroDivisionError", "CrossModuleAttention.__init__")
                    ELSE IF ~HeadDimPositive(hd)
                    THEN Raise("AssertionError", "CrossModuleAttention.__init__")
                    ELSE NoErr]

\* attention.py HierarchicalAttention.__init__: two directional blocks and,
\* if enabled, the cross block.
HierarchicalAttention__init__(controller_dim, worker_dim, num_heads, use_cross_attention) ==
    LET c2w == CrossModuleAttention__init__(worker_dim, controller_dim,
                   controller_dim, worker_dim, num_heads)
        w2c == CrossModuleAttention__init__(controller_dim, worker_dim,
                   worker_dim, controller_dim, num_heads)
        crs == IF use_cross_attention
               THEN CrossModuleAttention__init__(controller_dim, worker_dim,
                        worker_dim, controller_dim, num_heads)
               ELSE None
    IN  [cls |-> "HierarchicalAttention",
         controller_dim |-> controller_dim, worker_dim |-> worker_dim,
         num_heads |-> num_heads,
         use_cross_attention |-> use_cross_attention,
         controller_to_worker_attn |-> c2w,
         worker_to_controller_attn |-> w2c,
         cross_attention |-> crs,
         raised |-> FirstRaised(IF use_cross_attention
                                THEN <<c2w, w2c, crs>> ELSE <<c2w, w2c>>)]

\* hrm.py PositionalEncoding.__init__: pe[:, 1::2] has d_model // 2 columns
\* and is assigned a tensor of ceil(d_model / 2) columns, which broadcasts
\* only if the two agree or the source has one column.
PositionalEncoding__init__(d_model, max_len) ==
    LET sinCols == (d_model + 1) \div 2
        cosCols == d_model \div 2
    IN  [cls |-> "PositionalEncoding", d_model |-> d_model,
         pe |-> <<max_len, 1, d_model>>,
         raised |-> IF sinCols = cosCols \/ sinCols = 1 THEN NoErr
                    ELSE Raise("RuntimeError", "PositionalEncoding.__init__")]

\* The settings a caller can hand to HRM (or create_hrm_model) as keyword
\* arguments beyond the named ones, here with the sub-modules' defaults.
DefaultKwargs ==
    [num_heads |-> DefaultNumHeads, use_gated_attention |-> TRUE,
     use_conv |-> TRUE, use_gru |-> TRUE, use_cross_attention |-> TRUE]

\* The keyword arguments the caller draws from: the defaults, or one
\* setting changed.
HRMKwargs ==
    {DefaultKwargs,
     [DefaultKwargs EXCEPT !.num_heads = 4],
     [DefaultKwargs EXCEPT !.use_gated_attention = FALSE],
     [DefaultKwargs EXCEPT !.use_conv = FALSE],
     [DefaultKwargs EXCEPT !.use_gru = FALSE],
     [DefaultKwargs EXCEPT !.use_cross_attention = FALSE]}

\* hrm.py HRM.__init__: **kwargs is accepted and never read; the head
\* counts and the branch toggles of the sub-modules are not passed on, and
\* the sub-modules take their defaults.
HRM__init__(input_dim, controller_dim, worker_dim, num_layers, num_cycles, use_attention, use_positional_encoding, kwargs) ==
    LET ctl == Controller__init__(controller_dim, num_layers, DefaultNumHeads, TRUE)
        wrk == Worker__init__(worker_dim, num_layers, TRUE, TRUE)
        att == IF use_attention
               THEN HierarchicalAttention__init__(controller_dim, worker_dim,
                        BridgeNumHeads, TRUE)
               ELSE None
        pos == IF use_positional_encoding
               THEN PositionalEncoding__init__(controller_dim, PosMaxLen)
               ELSE None
    IN  [cls |-> "HRM",
         input_dim |-> input_dim, controller_dim |-> controller_dim,
         worker_dim |-> worker_dim, num_layers |-> num_layers,
         num_cycles |-> num_cycles, use_attention |-> use_attention,
         use_positional_encoding |-> use_positional_encoding,
         controller |-> ctl, worker |-> wrk, attention |-> att,
         pos_encoding |-> pos,
         raised |-> FirstRaised(
                      <<ctl, wrk>>
                      \o (IF use_attention THEN <<att>> ELSE <<>>)
                      \o (IF use_positional_encoding THEN <<pos>> ELSE <<>>))]

----------------------------------------------------------------------------
(* Forward passes at the level of tensor shapes.  An operator returns the  *)
(* shape of its result, BadShape when a tensor operation in it raises.     *)

\* tensor.squeeze(-1): drops the last dimension only when its extent is 1.
SqueezeLast(s) ==
    IF s = BadShape \/ Len(s) = 0 THEN BadShape
    ELSE IF s[Len(s)] = 1 THEN SubSeq(s, 1, Len(s) - 1) ELSE s

\* tensor.squeeze(1) of a rank-3 tensor.
Squeeze1(s) ==
    IF s = BadShape \/ Len(s) # 3 THEN BadShape
    ELSE IF s[2] = 1 THEN <<s[1], s[3]>> ELSE s

\* torch.cat([s, t], dim=-1).
CatLast(s, t) ==
    IF s = BadShape \/ t = BadShape \/ Len(s) # Len(t) \/ Len(s) = 0 THEN BadShape
    ELSE IF \E i \in 1..(Len(s) - 1) : s[i] # t[i] THEN BadShape
    ELSE [i \in 1..Len(s) |-> IF i = Len(s) THEN s[i] + t[i] ELSE s[i]]

\* nn.Conv1d(in_channels, out_channels, kernel_size=3, padding=1) on a
\* rank-3 input (batch, channels, length).
Conv1d(in_channels, out_channels, s) ==
    IF s = BadShape \/ Len(s) # 3 \/ s[2] # in_channels THEN BadShape
    ELSE <<s[1], out_channels, s[3] + 2 * ConvPadding - ConvKernelSize + 1>>

\* The tensor handed to the convolution: x.unsqueeze(-1).transpose(1, 2).
ConvInput(xs) == Transpose12(UnsqueezeLast(xs))

\* worker.py WorkerLayer.forward.
WorkerLayerForward(layer, xs, hs) ==
    LET linear_output == Linear(layer.dim, layer.dim, xs)
        conv_output == IF layer.use_conv
                       THEN SqueezeLast(Conv1d(layer.conv_in_channels,
                                               layer.dim, ConvInput(xs)))
                       ELSE xs
        gru_output == IF layer.use_gru
                      THEN (IF Linear(layer.dim, layer.dim, xs) = BadShape
                               \/ Linear(layer.dim, layer.dim, hs) = BadShape
                            THEN BadShape ELSE hs)
                      ELSE xs
        gate == Linear(2 * layer.dim, layer.dim, CatLast(conv_output, gru_output))
        output == Broadcast(Broadcast(Broadcast(gate, conv_output), gru_output),
                            linear_output)
    IN  Broadcast(hs, output)

\* worker.py Worker.forward: the layer stack, then the pattern and the
\* response networks on the final hidden state.
RECURSIVE WorkerStack(_, _, _)
WorkerStack(layers, xs, hs) ==
    IF Len(layers) = 0 THEN hs
    ELSE LET x_norm == LayerNorm(layers[1].dim, xs)
             new_hidden == WorkerLayerForward(layers[1], x_norm, hs)
         IN  IF new_hidden = BadShape THEN BadShape
             ELSE WorkerStack(Tail(layers), xs, new_hidden)

WorkerForward(w, xs, hs) ==
    LET current_hidden == WorkerStack(w.worker_layers, Linear(w.dim, w.dim, xs), hs)
        pattern_output == Linear(w.dim, w.dim, LayerNorm(w.dim, current_hidden))
        response_output == Linear(w.dim, w.dim, LayerNorm(w.dim, current_hidden))
    IN  Broadcast(Broadcast(current_hidden, pattern_output), response_output)

\* The mask as the attention blocks use it: mask.unsqueeze(1).unsqueeze(1).
MaskShape4(ms) == Unsqueeze1(Unsqueeze1(ms))

\* scores.masked_fill(mask == 0, -1e9): out of place, so scores and mask
\* are expanded to their common shape.
MaskedFillShape(scores, ms) ==
    IF ms = <<>> THEN scores ELSE Broadcast(scores, MaskShape4(ms))

\* The shape of the softmax weights of an attention block with num_heads
\* heads, for queries of length lq and keys of length lk.
AttnWeightsShape(batch, num_heads, lq, lk, ms) ==
    MaskedFillShape(<<batch, num_heads, lq, lk>>, ms)

\* controller.py MultiHeadAttention.forward (query = key = value).
MultiHeadAttentionForward(m, qs, ms) ==
    LET B == qs[1]
        L == qs[2]
        Q == Transpose12(View(Linear(m.dim, m.dim, qs), <<B, L, m.num_heads, m.head_dim>>))
        weights == AttnWeightsShape(B, m.num_heads, L, L, ms)
        attended == View(Transpose12(MatMul4(weights, Q)), <<B, L, m.dim>>)
        output == Linear(m.dim, m.dim, attended)
    IN  IF qs = BadShape \/ Len(qs) # 3 \/ Q = BadShape THEN BadShape
        ELSE IF m.use_gated THEN Broadcast(output, qs) ELSE output

\* attention.py CrossModuleAttention.forward.
CrossModuleAttentionForward(m, qs, ks, vs, ms) ==
    LET B == qs[1]
        inner == m.num_heads * m.head_dim
        Q == Transpose12(View(Linear(m.query_dim, inner, qs),
                              <<B, qs[2], m.num_heads, m.head_dim>>))
        K == Transpose12(View(Linear(m.key_dim, inner, ks),
                              <<B, ks[2], m.num_heads, m.head_dim>>))
        V == Transpose12(View(Linear(m.value_dim, inner, vs),
                              <<B, ks[2], m.num_heads, m.head_dim>>))
        weights == AttnWeightsShape(B, m.num_heads, qs[2], ks[2], ms)
        attended == View(Transpose12(MatMul4(weights, V)), <<B, qs[2], inner>>)
    IN  IF Q = BadShape \/ K = BadShape \/ V = BadShape THEN BadShape
        ELSE Linear(inner, m.output_dim, attended)

\* controller.py Controller.forward: goal encoding, the layer stack with
\* its pooled update of the hidden state, the planning network.
RECURSIVE ControllerStack(_, _, _, _, _)
ControllerStack(layers, dim, xs, hs, ms) ==
    IF Len(layers) = 0 THEN hs
    ELSE LET attn_out == MultiHeadAttentionForward(layers[1], LayerNorm(dim, xs), ms)
             x1 == Broadcast(xs, attn_out)
             ff_out == Linear(2 * dim, dim, Linear(dim, 2 * dim, LayerNorm(dim, x1)))
             x2 == Broadcast(x1, ff_out)
             global_info == IF x2 = BadShape THEN BadShape ELSE <<x2[1], x2[3]>>
             current_hidden == Broadcast(hs, global_info)
         IN  IF current_hidden = BadShape \/ x2 # xs THEN BadShape
             ELSE ControllerStack(Tail(layers), dim, x2, current_hidden, ms)

ControllerForward(c, xs, hs, ms) ==
    LET goal_encoding == Linear(c.dim, c.dim, hs)
        xg == Broadcast(xs, Unsqueeze1(goal_encoding))
        current_hidden == ControllerStack(c.self_attention, c.dim, xg, hs, ms)
        planning_output == Linear(c.dim, c.dim, LayerNorm(c.dim, current_hidden))
    IN  IF xg # xs THEN BadShape
        ELSE Broadcast(current_hidden, planning_output)

\* attention.py HierarchicalAttention.forward: the two states as length-1
\* sequences, the directional blocks, the gates, the normalisations.
\* Returns <<controller_output, worker_output>> or BadShape.
HierarchicalAttentionForward(a, cs, ws, ms) ==
    LET controller_seq == Unsqueeze1(cs)
        worker_seq == Unsqueeze1(ws)
        c2w == CrossModuleAttentionForward(a.controller_to_worker_attn,
                   worker_seq, controller_seq, controller_seq, ms)
        w2c == CrossModuleAttentionForward(a.worker_to_controller_attn,
                   controller_seq, worker_seq, worker_seq, ms)
        crs == IF a.use_cross_attention
               THEN CrossModuleAttentionForward(a.cross_attention,
                        controller_seq, worker_seq, worker_seq, ms)
               ELSE w2c
        controller_attended == Squeeze1(w2c)
        controller_gate == Linear(2 * a.controller_dim, a.controller_dim,
                                  CatLast(cs, controller_attended))
        controller_blend == Broadcast(Broadcast(controller_gate, controller_attended), cs)
        controller_output == IF a.use_cross_attention
                             THEN Broadcast(controller_blend, Squeeze1(crs))
                             ELSE controller_blend
        worker_attended == Squeeze1(c2w)
        worker_gate == Linear(2 * a.worker_dim, a.worker_dim,
                              CatLast(ws, worker_attended))
        worker_output == Broadcast(Broadcast(worker_gate, worker_attended), ws)
        cn == LayerNorm(a.controller_dim, controller_output)
        wn == LayerNorm(a.worker_dim, worker_output)
    IN  IF c2w = BadShape \/ w2c = BadShape \/ crs = BadShape
           \/ cn = BadShape \/ wn = BadShape
        THEN BadShape
        ELSE <<cn, wn>>

----------------------------------------------------------------------------
(* Values.  A tensor is its shape and the tag of the statement that        *)
(* produced it; the per-cycle attention diagnostics are a dict.            *)

Tensor(shape, tag) == [kind |-> "tensor", shape |-> shape, tag |-> tag]
NoTensor == Tensor(<<>>, <<"none", 0>>)

\* A state that a later call on the instance finds as the earlier call
\* left it, instead of a fresh one.
StateKept(shape) ==
    IF prior = None THEN Tensor(shape, <<"zeros", 0>>)
    ELSE Tensor(shape, <<"kept", 0>>)

\* torch.zeros(batch_size, dim): created anew by each forward call.
Zeros(shape) == Tensor(shape, <<"zeros", 0>>)

AttentionDict(a, k) ==
    [kind |-> "dict",
     keys |-> {"controller_to_worker", "worker_to_controller"}
              \cup (IF a.use_cross_attention THEN {"cross_attention"} ELSE {}),
     tag |-> <<"attention_weights", k>>]

\* A history that keeps only the latest state.
HistoryOverwrite(history, state) == <<state>>

\* A history that records the state under the name the cycle leaves it
\* with, as if appended after the normalisation.
HistoryAppendAtCycleEnd(history, state) ==
    Append(history, [state EXCEPT !.tag = <<"norm", state.tag[2]>>])

\* list.append(state) on one of the per-cycle histories.
HistoryAppend(history, state) == Append(history, state)

\* A stack that turns an empty list into an empty tensor.
TorchStackOfEmpty(list) ==
    IF Len(list) = 0
    THEN [raised |-> NoErr,
          value |-> [kind |-> "stack", shape |-> <<0>>, entries |-> <<>>]]
    ELSE IF \E i \in 1..Len(list) : list[i].kind # "tensor"
    THEN [raised |-> Raise("TypeError", "torch.stack"), value |-> NoTensor]
    ELSE [raised |-> NoErr,
          value |-> [kind |-> "stack",
                     shape |-> <<list[1].shape[1], Len(list)>> \o Tail(list[1].shape),
                     entries |-> [i \in 1..Len(list) |-> list[i].tag]]]

\* torch.stack(list, dim=1): needs a non-empty list of tensors.
TorchStack(list) ==
    IF Len(list) = 0
    THEN [raised |-> Raise("RuntimeError", "torch.stack"), value |-> NoTensor]
    ELSE IF \E i \in 1..Len(list) : list[i].kind # "tensor"
    THEN [raised |-> Raise("TypeError", "torch.stack"), value |-> NoTensor]
    ELSE [raised |-> NoErr,
          value |-> [kind |-> "stack",
                     shape |-> <<list[1].shape[1], Len(list)>> \o Tail(list[1].shape),
                     entries |-> [i \in 1..Len(list) |-> list[i].tag]]]

\* hrm.py PositionalEncoding.forward: x + self.pe[:x.size(0), :].
PositionalEncodingForward(p, xs) ==
    Broadcast(xs, <<Min2(xs[1], p.pe[1]), 1, p.d_model>>)

\* One entry of the record of executed statements.
Step(op, k, ins, out) == [op |-> op, cycle |-> k, ins |-> ins, out |-> out]

----------------------------------------------------------------------------
(* What values are computed from.  Beside its shape every local of         *)
(* HRM.forward has, for each batch element, the set of leaves its row is   *)
(* computed from: <<"x", b, t>> is the input at batch element b, sequence  *)
(* position t; <<"pe", p>> is row p of the positional table.  Dropout is   *)
(* the identity (evaluation mode).                                         *)

InputLeaf(b, t) == <<"x", b, t>>
PeLeaf(p) == <<"pe", p>>

\* hrm.py PositionalEncoding.__init__: entry (position, i) of the table is
\* the sine, for even i, or the cosine, for odd i, of position times the
\* frequency number i // 2.
PositionalEncodingEntry(position, i) ==
    [fn |-> IF i % 2 = 0 THEN "sin" ELSE "cos",
     position |-> position, frequency |-> i \div 2]

\* hrm.py PositionalEncoding.forward: self.pe has shape (max_len, 1, d_model)
\* and is sliced by x.size(0), the batch size; the slice (n, 1, d_model) is
\* broadcast against x (batch, seq_len, d_model).  The row of the table
\* (counted from 0) that is added at batch element b, position t.
PositionalEncodingRow(p, batch, b, t) ==
    IF Min2(batch, p.pe[1]) = batch THEN b - 1 ELSE 0

\* Lines 139-143 for one element of the projected input.
InputFlow(m, batch, b, t) ==
    {InputLeaf(b, t)}
    \cup (IF m.use_positional_encoding
          THEN {PeLeaf(PositionalEncodingRow(m.pos_encoding, batch, b, t))}
          ELSE {})

\* The key positions that get a non-zero softmax weight under a mask whose
\* zeros are at `ignored`: the attended ones, or all of them when every
\* position is ignored (equal scores, uniform weights).
AttendedKeys(seq_len, ignored) ==
    IF (1..seq_len) \subseteq ignored THEN 1..seq_len
    ELSE (1..seq_len) \ ignored

\* controller.py Controller.forward, lines 118-132, for one batch element:
\* every position keeps its own value (residual connections, the gate's
\* query term) and receives the attended keys.
ControllerLayerFlow(xs, ignored) ==
    LET attended == UNION {xs[t] : t \in AttendedKeys(Len(xs), ignored)}
    IN  [t \in 1..Len(xs) |-> xs[t] \cup attended]

\* controller.py Controller.forward for one batch element: the goal
\* encoding of the hidden state is added to every position; each layer
\* adds the mean over all positions (x.mean(dim=1)) to the hidden state.
\* Without layers the input sequence is not used.  Further layers add no
\* new leaves.
ControllerFlow(num_layers, xs, h, ignored) ==
    IF num_layers = 0 THEN h
    ELSE LET xg == [t \in 1..Len(xs) |-> xs[t] \cup h]
             x1 == ControllerLayerFlow(xg, ignored)
         IN  h \cup UNION {x1[t] : t \in 1..Len(xs)}

\* worker.py Worker.forward for one batch element: the layers add their
\* output, computed from the input and the hidden state, to the hidden
\* state; without layers the input is not used.
WorkerFlow(num_layers, win, h) == IF num_layers = 0 THEN h ELSE h \cup win

\* attention.py HierarchicalAttention.forward for one batch element: each
\* state is blended with the attention over the other state.
BridgeFlow(c, w) == [controller_output |-> c \cup w, worker_output |-> w \cup c]

\* Rows of a freshly created zero state.
ZeroRows(batch) == [b \in 1..batch |-> {}]

----------------------------------------------------------------------------
(* Initial state and the frame of the locals of HRM.forward.                *)

Init ==
    /\ pc = "new"
    /\ self = None
    /\ err = NoErr
    /\ call = None
    /\ x = NoTensor
    /\ cycle = 0
    /\ controller_state = NoTensor
    /\ worker_state = NoTensor
    /\ worker_input = NoTensor
    /\ controller_states = <<>>
    /\ worker_states = <<>>
    /\ attention_weights = <<>>
    /\ steps = <<>>
    /\ attn = None
    /\ result = None
    /\ flow = None
    /\ prior = None

hrmLocals == <<x, cycle, controller_state, worker_state, worker_input,
               controller_states, worker_states, attention_weights, steps,
               flow>>

\* The caller ends up holding the object, or the constructor's exception.
Outcome(obj) ==
    IF obj.raised = NoErr
    THEN [pc |-> "idle", self |-> obj, err |-> NoErr]
    ELSE [pc |-> "ctor_failed", self |-> None, err |-> obj.raised]

NewHRM ==
    \E input_dim \in InputDims, controller_dim \in ControllerDims,
       worker_dim \in WorkerDims, num_layers \in LayerCounts,
       num_cycles \in 0..MaxCycles,
       use_attention \in BOOLEAN, use_positional_encoding \in BOOLEAN,
       kwargs \in HRMKwargs :
        LET o == Outcome(HRM__init__(input_dim, controller_dim, worker_dim, num_layers, num_cycles, use_attention, use_positional_encoding, kwargs))
        IN  /\ pc = "new"
            /\ UNCHANGED prior
            /\ call' = [op |-> "HRM.__init__", controller_dim |-> controller_dim, worker_dim |-> worker_dim, num_layers |-> num_layers, num_cycles |-> num_cycles, use_attention |-> use_attention, use_positional_encoding |-> use_positional_encoding, kwargs |-> kwargs]
            /\ pc' = o.pc /\ self' = o.self /\ err' = o.err
            /\ UNCHANGED <<hrmLocals, attn, result>>

----------------------------------------------------------------------------
(* HRM.forward, one action per statement group of the cycle loop.           *)

Fail(e) ==
    /\ pc' = "failed"
    /\ err' = e
    /\ result' = None

\* A loop that never enters the bridge.
AfterWorkerSkipBridge(use_attention) == "feedback"

\* Where the loop goes after the worker step, and after a cycle.
AfterWorker(use_attention) == IF use_attention THEN "bridge" ELSE "feedback"
LoopNext(k, num_cycles) == IF k < num_cycles THEN "controller" ELSE "output"

\* The zero positions of the mask of a call, the same for every batch
\* element: none, or the last position of a longer sequence.
MaskPatterns(seq_len) == {{}} \cup (IF seq_len > 1 THEN {{seq_len}} ELSE {})

\* Lines 136-156: input projection, positional encoding, zero states.  Once
\* a call has ended, the caller's further calls repeat its arguments.
HRMForward ==
    \E batch \in BatchSizes, seq_len \in 1..MaxSeqLen,
       masked \in BOOLEAN, return_attention \in BOOLEAN :
      \E ignored \in MaskPatterns(seq_len) :
        LET xs == Linear(self.input_dim, self.controller_dim,
                         <<batch, seq_len, self.input_dim>>)
            xp == IF self.use_positional_encoding
                  THEN PositionalEncodingForward(self.pos_encoding, xs)
                  ELSE xs
        IN  /\ pc = "idle" /\ self.cls = "HRM"
            /\ UNCHANGED prior
            /\ call' = [op |-> "HRM.forward", batch |-> batch,
                        seq_len |-> seq_len,
                        mask |-> IF masked THEN <<batch, seq_len>> ELSE <<>>,
                        ignored |-> ignored,
                        return_attention |-> return_attention]
            /\ ~masked => ignored = {}
            /\ prior # None => call' = prior.call
            /\ flow' = [x |-> [b \in 1..batch |-> [t \in 1..seq_len |->
                                  InputFlow(self, batch, b, t)]],
                        controller_state |-> ZeroRows(batch),
                        worker_state |-> ZeroRows(batch),
                        worker_input |-> ZeroRows(batch),
                        controller_states |-> <<>>,
                        worker_states |-> <<>>,
                        output |-> <<>>]
            /\ x' = Tensor(xp, <<"input", 0>>)
            /\ controller_state' = Zeros(<<batch, self.controller_dim>>)
            /\ worker_state' = Zeros(<<batch, self.worker_dim>>)
            /\ worker_input' = NoTensor
            /\ controller_states' = <<>>
            /\ worker_states' = <<>>
            /\ attention_weights' = <<>>
            /\ cycle' = 0
            /\ steps' = <<>>
            /\ pc' = LoopNext(0, self.num_cycles)
            /\ UNCHANGED <<self, err, attn, result>>

\* Lines 161-167: Controller.step, then the append to the history.
ControllerStep ==
    /\ pc = "controller"
    /\ UNCHANGED prior
    /\ LET hs == ControllerForward(self.controller, x.shape,
                                   controller_state.shape, call.mask)
           new == Tensor(hs, <<"controller", cycle>>)
       IN  IF hs = BadShape
           THEN /\ Fail(Raise("RuntimeError", "Controller.forward"))
                /\ UNCHANGED <<self, call, hrmLocals, attn>>
           ELSE /\ controller_state' = new
                /\ controller_states' = HistoryAppend(controller_states, new)
                /\ flow' = LET rows == [b \in 1..call.batch |->
                                          ControllerFlow(self.num_layers, flow.x[b],
                                              flow.controller_state[b], call.ignored)]
                           IN  [flow EXCEPT !.controller_state = rows,
                                            !.controller_states = Append(@, rows)]
                /\ steps' = Append(steps, Step("controller", cycle,
                                <<x.tag, controller_state.tag>>, <<new.tag>>))
                /\ pc' = "project"
                /\ UNCHANGED <<self, err, call, x, cycle, worker_state,
                               worker_input, worker_states, attention_weights,
                               attn, result>>

\* Line 170: the projection of the controller state to the worker dimension.
ProjectStep ==
    /\ pc = "project"
    /\ UNCHANGED prior
    /\ LET ws == Linear(self.controller_dim, self.worker_dim, controller_state.shape)
           new == Tensor(ws, <<"project", cycle>>)
       IN  /\ worker_input' = new
           /\ flow' = [flow EXCEPT !.worker_input = flow.controller_state]
           /\ steps' = Append(steps, Step("project", cycle,
                           <<controller_state.tag>>, <<new.tag>>))
           /\ pc' = "worker"
    /\ UNCHANGED <<self, err, call, x, cycle, controller_state, worker_state,
                   controller_states, worker_states, attention_weights,
                   attn, result>>

\* Lines 171-176: Worker.step, then the append to the history.
WorkerStep ==
    /\ pc = "worker"
    /\ UNCHANGED prior
    /\ LET hs == WorkerForward(self.worker, worker_input.shape, worker_state.shape)
           new == Tensor(hs, <<"worker", cycle>>)
       IN  IF hs = BadShape
           THEN /\ Fail(Raise("RuntimeError", "WorkerLayer.forward"))
                /\ UNCHANGED <<self, call, hrmLocals, attn>>
           ELSE /\ worker_state' = new
                /\ worker_states' = HistoryAppend(worker_states, new)
                /\ flow' = LET rows == [b \in 1..call.batch |->
                                          WorkerFlow(self.num_layers, flow.worker_input[b],
                                              flow.worker_state[b])]
                           IN  [flow EXCEPT !.worker_state = rows,
                                            !.worker_states = Append(@, rows)]
                /\ steps' = Append(steps, Step("worker", cycle,
                                <<worker_input.tag, worker_state.tag>>, <<new.tag>>))
                /\ pc' = AfterWorker(self.use_attention)
                /\ UNCHANGED <<self, err, call, x, cycle, controller_state,
                               worker_input, controller_states,
                               attention_weights, attn, result>>

\* Lines 179-189: the bridge, with the mask of the call handed on.
BridgeStep ==
    /\ pc = "bridge"
    /\ UNCHANGED prior
    /\ LET r == HierarchicalAttentionForward(self.attention,
                    controller_state.shape, worker_state.shape, call.mask)
           newc == Tensor(r[1], <<"bridge_controller", cycle>>)
           neww == Tensor(r[2], <<"bridge_worker", cycle>>)
       IN  IF r = BadShape
           THEN /\ Fail(Raise("RuntimeError", "CrossModuleAttention.forward"))
                /\ UNCHANGED <<self, call, hrmLocals, attn>>
           ELSE /\ controller_state' = newc
                /\ worker_state' = neww
                /\ flow' = [flow EXCEPT
                       !.controller_state = [b \in 1..call.batch |->
                           BridgeFlow(flow.controller_state[b],
                                      flow.worker_state[b]).controller_output],
                       !.worker_state = [b \in 1..call.batch |->
                           BridgeFlow(flow.controller_state[b],
                                      flow.worker_state[b]).worker_output]]
                /\ attention_weights' =
                       IF call.return_attention
                       THEN Append(attention_weights,
                                   AttentionDict(self.attention, cycle))
                       ELSE attention_weights
                /\ steps' = Append(steps, Step("bridge", cycle,
                                <<controller_state.tag, worker_state.tag>>,
                                <<newc.tag, neww.tag>>))
                /\ pc' = "feedback"
                /\ UNCHANGED <<self, err, call, x, cycle, worker_input,
                               controller_states, worker_states, attn, result>>

\* Lines 192-193: worker-to-controller feedback added to the controller state.
FeedbackStep ==
    /\ pc = "feedback"
    /\ UNCHANGED prior
    /\ LET fb == Linear(self.worker_dim, self.controller_dim, worker_state.shape)
           new == Tensor(Broadcast(controller_state.shape, fb), <<"feedback", cycle>>)
       IN  /\ controller_state' = new
           /\ flow' = [flow EXCEPT !.controller_state = [b \in 1..call.batch |->
                           flow.controller_state[b] \cup flow.worker_state[b]]]
           /\ steps' = Append(steps, Step("feedback", cycle,
                           <<controller_state.tag, worker_state.tag>>, <<new.tag>>))
           /\ pc' = "norm"
    /\ UNCHANGED <<self, err, call, x, cycle, worker_state, worker_input,
                   controller_states, worker_states, attention_weights,
                   attn, result>>

\* Line 196: layer normalisation; the loop moves to the next cycle.
NormStep ==
    /\ pc = "norm"
    /\ UNCHANGED prior
    /\ LET new == Tensor(LayerNorm(self.controller_dim, controller_state.shape),
                         <<"norm", cycle>>)
       IN  /\ controller_state' = new
           /\ steps' = Append(steps, Step("norm", cycle,
                           <<controller_state.tag>>, <<new.tag>>))
    /\ cycle' = cycle + 1
    /\ pc' = LoopNext(cycle + 1, self.num_cycles)
    /\ UNCHANGED <<self, err, call, x, worker_state, worker_input,
                   controller_states, worker_states, attention_weights,
                   attn, result, flow>>

\* Lines 199-213: output projection, stacking of the histories, the result.
OutputStep ==
    /\ pc = "output"
    /\ UNCHANGED prior
    /\ LET output == Tensor(Linear(self.controller_dim, self.input_dim,
                                   controller_state.shape), <<"output", cycle>>)
           cstack == TorchStack(controller_states)
           wstack == TorchStack(worker_states)
           wanted == call.return_attention /\ self.use_attention
           astack == IF wanted THEN TorchStack(attention_weights)
                     ELSE [raised |-> NoErr, value |-> NoTensor]
           raised == IF cstack.raised # NoErr THEN cstack.raised
                     ELSE IF wstack.raised # NoErr THEN wstack.raised
                     ELSE astack.raised
       IN  IF raised # NoErr
           THEN /\ Fail(raised)
                /\ UNCHANGED <<self, call, hrmLocals, attn>>
           ELSE /\ result' = [cls |-> "HRMResult",
                              keys |-> {"output", "controller_states",
                                        "worker_states", "final_controller_state",
                                        "final_worker_state"}
                                       \cup (IF wanted THEN {"attention_weights"} ELSE {}),
                              output |-> output,
                              controller_states |-> cstack.value,
                              worker_states |-> wstack.value,
                              final_controller_state |-> controller_state,
                              final_worker_state |-> worker_state,
                              attention_weights |-> astack.value]
                /\ steps' = Append(steps, Step("output", cycle,
                                <<controller_state.tag>>, <<output.tag>>))
                /\ flow' = [flow EXCEPT !.output = flow.controller_state]
                /\ pc' = "done"
                /\ UNCHANGED <<self, err, call, x, cycle, controller_state,
                               worker_state, worker_input, controller_states,
                               worker_states, attention_weights, attn>>

\* A module whose forward has overwritten a configuration field.
AfterForwardReconfigured(m) ==
    IF m.cls = "HRM" THEN [m EXCEPT !.num_cycles = 0] ELSE m

\* The module as a forward call leaves it: no statement of a forward
\* assigns to an attribute of the module, and every tensor operation on a
\* parameter or buffer is out of place.
AfterForward(m) == m

\* The call has returned or raised; its locals are gone and the caller may
\* call the module again.
Return ==
    /\ pc \in {"done", "failed"}
    /\ pc' = "idle"
    /\ err' = NoErr
    /\ call' = None
    /\ x' = NoTensor
    /\ cycle' = 0
    /\ controller_state' = NoTensor
    /\ worker_state' = NoTensor
    /\ worker_input' = NoTensor
    /\ controller_states' = <<>>
    /\ worker_states' = <<>>
    /\ attention_weights' = <<>>
    /\ steps' = <<>>
    /\ attn' = None
    /\ result' = None
    /\ flow' = None
    /\ prior' = IF prior = None /\ call.op = "HRM.forward"
                THEN [call |-> call, pc |-> pc, err |-> err, result |-> result,
                      flow |-> flow]
                ELSE prior
    /\ self' = AfterForward(self)

----------------------------------------------------------------------------
(* The attention blocks and the bridge constructed and called on their own.*)

NewMultiHeadAttention ==
    \E dim \in AttnDims, num_heads \in HeadCounts, use_gated \in BOOLEAN :
        LET o == Outcome(MultiHeadAttention__init__(dim, num_heads, use_gated))
        IN  /\ pc = "new"
            /\ UNCHANGED prior
            /\ call' = [op |-> "MultiHeadAttention.__init__", dim |-> dim, num_heads |-> num_heads]
            /\ pc' = o.pc /\ self' = o.self /\ err' = o.err
            /\ UNCHANGED <<hrmLocals, attn, result>>

NewAttnMultiHeadAttention ==
    \E dim \in AttnDims, num_heads \in HeadCounts :
        LET o == Outcome(AttnMultiHeadAttention__init__(dim, num_heads))
        IN  /\ pc = "new"
            /\ UNCHANGED prior
            /\ call' = [op |-> "AttnMultiHeadAttention.__init__", dim |-> dim, num_heads |-> num_heads]
            /\ pc' = o.pc /\ self' = o.self /\ err' = o.err
            /\ UNCHANGED <<hrmLocals, attn, result>>

NewController ==
    \E dim \in AttnDims, num_layers \in LayerCounts, num_heads \in HeadCounts :
        LET o == Outcome(Controller__init__(dim, num_layers, num_heads, TRUE))
        IN  /\ pc = "new"
            /\ UNCHANGED prior
            /\ call' = [op |-> "Controller.__init__", dim |-> dim, num_layers |-> num_layers, num_heads |-> num_heads]
            /\ pc' = o.pc /\ self' = o.self /\ err' = o.err
            /\ UNCHANGED <<hrmLocals, attn, result>>

NewCrossModuleAttention ==
    \E query_dim \in AttnDims, key_dim \in AttnDims, num_heads \in HeadCounts :
        LET o == Outcome(CrossModuleAttention__init__(query_dim, key_dim, key_dim, query_dim, num_heads))
        IN  /\ pc = "new"
            /\ UNCHANGED prior
            /\ call' = [op |-> "CrossModuleAttention.__init__", query_dim |-> query_dim, key_dim |-> key_dim, value_dim |-> key_dim, num_heads |-> num_heads]
            /\ pc' = o.pc /\ self' = o.self /\ err' = o.err
            /\ UNCHANGED <<hrmLocals, attn, result>>

NewHierarchicalAttention ==
    \E controller_dim \in ControllerDims, worker_dim \in WorkerDims,
       num_heads \in HeadCounts, use_cross_attention \in BOOLEAN :
        LET o == Outcome(HierarchicalAttention__init__(controller_dim, worker_dim, num_heads, use_cross_attention))
        IN  /\ pc = "new"
            /\ UNCHANGED prior
            /\ call' = [op |-> "HierarchicalAttention.__init__", controller_dim |-> controller_dim, worker_dim |-> worker_dim, num_heads |-> num_heads]
            /\ pc' = o.pc /\ self' = o.self /\ err' = o.err
            /\ UNCHANGED <<hrmLocals, attn, result>>

\* Attention values are followed on one row of the score tensor: the
\* scores of one query position of one head of one batch element against
\* every key, with the mask row of that batch element (1 attend, 0 ignore).
RECURSIVE Pow2(_)
Pow2(n) == IF n <= 0 THEN 1 ELSE 2 * Pow2(n - 1)

RECURSIVE SeqSum(_)
SeqSum(q) == IF Len(q) = 0 THEN 0 ELSE q[1] + SeqSum(Tail(q))

RECURSIVE SeqMax(_)
SeqMax(q) == IF Len(q) = 1 THEN q[1] ELSE Max2(q[1], SeqMax(Tail(q)))

\* The largest difference between two scores the caller supplies.
ScoreSpan ==
    (CHOOSE m \in ScoreVals : \A v \in ScoreVals : v <= m)
    - (CHOOSE m \in ScoreVals : \A v \in ScoreVals : m <= v)

\* A fill that replaces the attended positions instead of the ignored ones.
MaskedFillInverted(row, maskrow) ==
    LET n == Max2(Len(row), Len(maskrow))
        ok == Len(row) \in {1, n} /\ Len(maskrow) \in {1, n}
        at(q, i) == IF Len(q) = 1 THEN q[1] ELSE q[i]
    IN  IF ~ok THEN <<>>
        ELSE [i \in 1..n |-> IF at(maskrow, i) = 1 THEN MaskFillValue
                             ELSE at(row, i)]

\* scores.masked_fill(mask == 0, -1e9) on the row: row and mask row are
\* expanded to their common length; <<>> when they do not broadcast.
MaskedFill(row, maskrow) ==
    LET n == Max2(Len(row), Len(maskrow))
        ok == Len(row) \in {1, n} /\ Len(maskrow) \in {1, n}
        at(q, i) == IF Len(q) = 1 THEN q[1] ELSE q[i]
    IN  IF ~ok THEN <<>>
        ELSE [i \in 1..n |-> IF at(maskrow, i) = 0 THEN MaskFillValue
                             ELSE at(row, i)]

\* exp(d) for d <= 0, to base 2 and scaled to an integer; a difference of
\* the order of the fill value underflows to 0.
ExpQ(d) == IF d < MaskFillValue \div 2 THEN 0 ELSE Pow2(d + ScoreSpan)

\* Exponentials of the scores that are not divided by their sum.
SoftmaxUnnormalised(row) ==
    [num |-> [k \in 1..Len(row) |-> ExpQ(row[k] - SeqMax(row))],
     den |-> 2 * Pow2(ScoreSpan)]

\* F.softmax(scores, dim=-1) on the row: weight k is num[k] / den.
Softmax(row) ==
    LET m == SeqMax(row)
        num == [k \in 1..Len(row) |-> ExpQ(row[k] - m)]
    IN  [num |-> num, den |-> SeqSum(num)]

Rows(n) == [1..n -> ScoreVals]
MaskRows(n) == [1..n -> {0, 1}]

\* Lines up to the softmax of MultiHeadAttention.forward (either variant)
\* and of CrossModuleAttention.forward.
AttentionWeights ==
    \E batch \in BatchSizes, lq \in 1..MaxSeqLen, lk \in 1..MaxSeqLen,
       lm \in 0..MaxSeqLen :
      \E row \in Rows(lk), maskrow \in MaskRows(lm) :
        LET filled == IF lm = 0 THEN row ELSE MaskedFill(row, maskrow)
        IN  /\ pc = "idle"
            /\ UNCHANGED prior
            /\ self.cls \in {"MultiHeadAttention", "AttnMultiHeadAttention",
                             "CrossModuleAttention"}
            /\ self.cls # "CrossModuleAttention" => lq = lk /\ lm \in {0, lk}
            /\ call' = [op |-> "attention.forward", batch |-> batch,
                        lq |-> lq, lk |-> lk,
                        mask |-> IF lm = 0 THEN <<>> ELSE <<batch, lm>>]
            /\ IF filled = <<>>
               THEN /\ Fail(Raise("RuntimeError", "masked_fill"))
                    /\ attn' = None
               ELSE /\ attn' = [scores |-> row, mask |-> maskrow,
                                filled |-> filled,
                                attention_weights |-> Softmax(filled)]
                    /\ pc' = "softmax"
                    /\ UNCHANGED <<err, result>>
            /\ UNCHANGED <<self, hrmLocals>>

\* The rest of the attention forward: weights times values, output
\* projection (dropout is the identity in evaluation mode).
AttentionApply ==
    /\ pc = "softmax"
    /\ UNCHANGED prior
    /\ LET out == IF self.cls = "CrossModuleAttention"
                  THEN CrossModuleAttentionForward(self,
                           <<call.batch, call.lq, self.query_dim>>,
                           <<call.batch, call.lk, self.key_dim>>,
                           <<call.batch, call.lk, self.value_dim>>, call.mask)
                  ELSE MultiHeadAttentionForward(self,
                           <<call.batch, call.lq, self.dim>>, call.mask)
       IN  IF out = BadShape
           THEN Fail(Raise("RuntimeError", "torch.matmul"))
           ELSE /\ pc' = "done"
                /\ result' = [cls |-> "AttentionResult",
                              output |-> Tensor(out, <<"attention", 0>>),
                              attention_weights |-> attn.attention_weights]
                /\ UNCHANGED err
    /\ UNCHANGED <<self, call, hrmLocals, attn>>

\* attention.py CrossModuleAttention.forward, lines 259-280, on one head of
\* one batch element: row holds the scores of the query against every key
\* (the only place the query enters), value_side names the state the keys
\* and values are projected from.  The attended value is the sum of the
\* projected values weighted num / den.
CrossModuleAttentionValues(block, row, maskrow, value_side) ==
    LET filled == IF maskrow = <<>> THEN row ELSE MaskedFill(row, maskrow)
        w == Softmax(filled)
    IN  [block |-> block,
         attention_weights |-> w,
         attended |-> [k \in 1..Len(filled) |->
                          [num |-> w.num[k], den |-> w.den,
                           value |-> <<"value_proj", value_side, k>>]]]

\* A cross term that is added whether or not the block has run.
CrossTermUnguarded(cross_output) == <<cross_output>>

\* attention.py lines 152-154: what is added to the controller blend.
CrossTerm(cross_output) ==
    IF cross_output # None THEN <<cross_output>> ELSE <<>>

\* attention.py HierarchicalAttention.forward, lines 115-183, on one batch
\* element: rows holds the score row of each block, maskrow the mask row
\* (<<>> without a mask).  An output is the normalisation of a gated blend
\* of the attended value and the state, plus what is added to it.
HierarchicalAttentionValues(a, rows, maskrow) ==
    LET c2w_output == CrossModuleAttentionValues("controller_to_worker_attn",
                          rows.c2w, maskrow, "controller_state")
        w2c_output == CrossModuleAttentionValues("worker_to_controller_attn",
                          rows.w2c, maskrow, "worker_state")
        cross_output == IF a.use_cross_attention
                        THEN CrossModuleAttentionValues("cross_attention",
                                 rows.cross, maskrow, "worker_state")
                        ELSE None
        controller_output ==
            [norm |-> "controller_norm",
             gate_of |-> <<"controller_state", w2c_output>>,
             blend |-> <<w2c_output, "controller_state">>,
             added |-> CrossTerm(cross_output)]
        worker_output ==
            [norm |-> "worker_norm",
             gate_of |-> <<"worker_state", c2w_output>>,
             blend |-> <<c2w_output, "worker_state">>,
             added |-> <<>>]
    IN  [controller_output |-> controller_output,
         worker_output |-> worker_output,
         attention_weights |->
             [k \in {"controller_to_worker", "worker_to_controller"}
                     \cup (IF cross_output # None THEN {"cross_attention"} ELSE {})
              |-> IF k = "controller_to_worker" THEN c2w_output.attention_weights
                  ELSE IF k = "worker_to_controller" THEN w2c_output.attention_weights
                  ELSE cross_output.attention_weights]]

\* HierarchicalAttention.forward called directly on two states; the score
\* rows have one entry, the states being sequences of length 1.
BridgeForward ==
    \E batch \in BatchSizes, lm \in 0..MaxSeqLen :
      \E c2w \in Rows(1), w2c \in Rows(1), cross \in Rows(1),
         maskrow \in MaskRows(lm) :
        LET ms == IF lm = 0 THEN <<>> ELSE <<batch, lm>>
            r == HierarchicalAttentionForward(self,
                     <<batch, self.controller_dim>>, <<batch, self.worker_dim>>, ms)
            rows == [c2w |-> c2w, w2c |-> w2c, cross |-> cross]
        IN  /\ pc = "idle" /\ self.cls = "HierarchicalAttention"
            /\ UNCHANGED prior
            /\ ~self.use_cross_attention => cross = c2w
            /\ call' = [op |-> "HierarchicalAttention.forward",
                        batch |-> batch, mask |-> ms,
                        rows |-> rows, maskrow |-> maskrow]
            /\ IF r = BadShape
               THEN /\ Fail(Raise("RuntimeError", "CrossModuleAttention.forward"))
                    /\ attn' = None
               ELSE /\ pc' = "done"
                    /\ attn' = HierarchicalAttentionValues(self, rows, maskrow)
                    /\ result' = [cls |-> "BridgeResult",
                                  controller_output |-> Tensor(r[1], <<"bridge_controller", 0>>),
                                  worker_output |-> Tensor(r[2], <<"bridge_worker", 0>>),
                                  attention_weights |-> AttentionDict(self, 0)]
                    /\ UNCHANGED err
            /\ UNCHANGED <<self, hrmLocals>>

----------------------------------------------------------------------------
(* The gates, and a worker layer called on its own.  Values are followed   *)
(* on one element of one batch row; a value v of a gated sum stands for    *)
(* v / GateScale.  The learned maps (linear, convolution, recurrent cell,  *)
(* gate projection) have arbitrary weights, so their outputs are drawn     *)
(* from the value sets.                                                    *)

\* A gate that is the bare projection, without the sigmoid.
NoSigmoid(z) == GateScale * z

\* nn.Sigmoid / F.sigmoid of a pre-activation z, to base 2, rounded to the
\* nearest step: 0 and GateScale (1.0) are reached by saturation.
SigmoidQ(z) ==
    LET p == Pow2(IF z >= 0 THEN z ELSE -z)
    IN  IF z >= 0 THEN (2 * GateScale * p + p + 1) \div (2 * (p + 1))
        ELSE (2 * GateScale + p + 1) \div (2 * (p + 1))

\* gate * a + (1 - gate) * b.
GatedSum(gate, a, b) == gate * a + (GateScale - gate) * b

\* The gates of the code: the value of the gate, the candidates it weighs
\* with their weights, and the result.
\* attention.py HierarchicalAttention.forward, lines 146-149 and 157-160.
HierarchicalAttentionGate(z, attended, state) ==
    LET gate == SigmoidQ(z)
    IN  [gate |-> gate,
         terms |-> <<<<gate, attended>>, <<GateScale - gate, state>>>>,
         out |-> GatedSum(gate, attended, state)]

\* worker.py WorkerLayer.forward, lines 210-214.
WorkerLayerGate(z, conv_output, gru_output) ==
    LET gate == SigmoidQ(z)
    IN  [gate |-> gate,
         terms |-> <<<<gate, conv_output>>, <<GateScale - gate, gru_output>>>>,
         out |-> GatedSum(gate, conv_output, gru_output)]

\* controller.py MultiHeadAttention.forward, lines 241-243.
MultiHeadAttentionGate(z, output, query) ==
    LET gate == SigmoidQ(z)
    IN  [gate |-> gate,
         terms |-> <<<<gate, output>>, <<GateScale - gate, query>>>>,
         out |-> GatedSum(gate, output, query)]

\* controller.py FeedForward.forward, lines 271-279: the gate multiplies
\* the activated up-projection; there is no second candidate.
FeedForwardGate(z, up) ==
    LET gate == SigmoidQ(z)
    IN  [gate |-> gate,
         terms |-> <<<<gate, up>>>>,
         out |-> gate * up]

\* The gates a module holds.
GateSites(m) ==
    IF m.cls = "HierarchicalAttention" THEN {"bridge_controller", "bridge_worker"}
    ELSE IF m.cls = "WorkerLayer" THEN {"worker_layer"}
    ELSE IF m.cls = "MultiHeadAttention" /\ m.use_gated THEN {"self_attention"}
    ELSE IF m.cls = "Controller" /\ m.num_layers >= 1
    THEN {"feed_forward"}
         \cup (IF m.use_gated_attention THEN {"self_attention"} ELSE {})
    ELSE {}

\* The gating statements of the forward of the module at hand, on one
\* element: z is the gate's pre-activation, a and b the values gated.
GateStep ==
    \E z \in PreActs, a \in ElemVals, b \in ElemVals :
      \E site \in GateSites(self) :
        /\ pc = "idle"
        /\ UNCHANGED prior
        /\ call' = [op |-> "gate", site |-> site, z |-> z, a |-> a, b |-> b]
        /\ attn' = CASE site \in {"bridge_controller", "bridge_worker"} ->
                           HierarchicalAttentionGate(z, a, b)
                     [] site = "worker_layer" -> WorkerLayerGate(z, a, b)
                     [] site = "self_attention" -> MultiHeadAttentionGate(z, a, b)
                     [] OTHER -> FeedForwardGate(z, a)
        /\ pc' = "done"
        /\ result' = [cls |-> "GateResult", site |-> site]
        /\ UNCHANGED <<self, err, hrmLocals>>

NewWorkerLayer ==
    \E dim \in WorkerDims, use_conv \in BOOLEAN, use_gru \in BOOLEAN :
        LET o == Outcome(WorkerLayer__init__(dim, use_conv, use_gru))
        IN  /\ pc = "new"
            /\ UNCHANGED prior
            /\ call' = [op |-> "WorkerLayer.__init__", dim |-> dim, use_conv |-> use_conv, use_gru |-> use_gru]
            /\ pc' = o.pc /\ self' = o.self /\ err' = o.err
            /\ UNCHANGED <<hrmLocals, attn, result>>

\* A disabled branch that yields nothing instead of the input.
DisabledBranchZero(v) == 0

\* worker.py lines 198 and 205: the value of a branch that is switched off.
DisabledBranch(v) == v

\* worker.py WorkerLayer.forward on input (batch, dim) and hidden state
\* (batch, dim): xv and hv are the input and the hidden state, lin, cv and
\* gr what the linear map, the convolution and the recurrent cell return,
\* z the gate's pre-activation.
WorkerLayerCall ==
    \E batch \in BatchSizes, xv \in ElemVals, hv \in ElemVals, lin \in ElemVals,
       cv \in ElemVals, gr \in ElemVals, z \in PreActs :
        LET xs == <<batch, self.dim>>
            x_conv == IF self.use_conv THEN ConvInput(xs) ELSE <<>>
            conv_shape == IF self.use_conv
                          THEN SqueezeLast(Conv1d(self.conv_in_channels,
                                                  self.dim, x_conv))
                          ELSE xs
            conv_output == IF self.use_conv THEN cv ELSE DisabledBranch(xv)
            gru_output == IF self.use_gru THEN gr ELSE DisabledBranch(xv)
            g == WorkerLayerGate(z, conv_output, gru_output)
            output == g.out + GateScale * lin
            hs == WorkerLayerForward(self, xs, xs)
        IN  /\ pc = "idle" /\ self.cls = "WorkerLayer"
            /\ UNCHANGED prior
            /\ ~self.use_conv => cv = xv
            /\ ~self.use_gru => gr = xv
            /\ call' = [op |-> "WorkerLayer.forward", batch |-> batch]
            /\ IF hs = BadShape
               THEN /\ Fail(Raise("RuntimeError", "WorkerLayer.forward"))
                    /\ attn' = [x |-> xv, hidden_state |-> hv, x_conv |-> x_conv,
                                conv_shape |-> conv_shape]
               ELSE /\ attn' = [x |-> xv, hidden_state |-> hv, x_conv |-> x_conv,
                                conv_shape |-> conv_shape,
                                linear_output |-> lin,
                                conv_output |-> conv_output,
                                gru_output |-> gru_output,
                                combined |-> <<conv_output, gru_output>>,
                                gate |-> g.gate, gated |-> g.out,
                                output |-> output,
                                new_hidden |-> GateScale * hv + output]
                    /\ pc' = "done"
                    /\ result' = [cls |-> "WorkerLayerResult",
                                  output |-> Tensor(hs, <<"worker_layer", 0>>),
                                  hidden_state |-> Tensor(hs, <<"worker_layer", 0>>)]
                    /\ UNCHANGED err
            /\ UNCHANGED <<self, hrmLocals>>

Next ==
    \/ NewHRM
    \/ NewController
    \/ NewMultiHeadAttention
    \/ NewAttnMultiHeadAttention
    \/ NewCrossModuleAttention
    \/ NewHierarchicalAttention
    \/ HRMForward
    \/ ControllerStep
    \/ ProjectStep
    \/ WorkerStep
    \/ BridgeStep
    \/ FeedbackStep
    \/ NormStep
    \/ OutputStep
    \/ AttentionWeights
    \/ AttentionApply
    \/ BridgeForward
    \/ NewWorkerLayer
    \/ WorkerLayerCall
    \/ GateStep
    \/ Return

Spec == Init /\ [][Next]_vars

----------------------------------------------------------------------------
(* Properties.                                                              *)

HRMCall == self.cls = "HRM" /\ call.op = "HRM.forward"
HRMEnded == pc \in {"done", "failed"} /\ HRMCall
PlainCall == call.mask = <<>> /\ ~call.return_attention

\* C1: for every constructed HRM with num_cycles >= 1 and every input of
\* shape (batch, seqLen, inputDim), HRM.forward completes without a shape
\* error and returns output of shape (batch, inputDim) and final states of
\* shapes (batch, controller_dim) and (batch, worker_dim).
C1_ForwardCompletes ==
    (HRMEnded /\ self.num_cycles >= 1 /\ PlainCall) =>
        /\ pc = "done"
        /\ result.output.shape = <<call.batch, self.input_dim>>
        /\ result.final_controller_state.shape = <<call.batch, self.controller_dim>>
        /\ result.final_worker_state.shape = <<call.batch, self.worker_dim>>

\* C2: after any completed HRM.forward call both histories hold exactly
\* num_cycles entries, stacked to (batch, num_cycles, dim), entry k being
\* the state appended in cycle k, whatever the mask and the toggles.
C2_HistoryLength ==
    (pc = "done" /\ HRMCall) =>
        /\ result.controller_states.shape =
               <<call.batch, self.num_cycles, self.controller_dim>>
        /\ result.worker_states.shape =
               <<call.batch, self.num_cycles, self.worker_dim>>
        /\ result.controller_states.entries =
               [k \in 1..self.num_cycles |-> <<"controller", k - 1>>]
        /\ result.worker_states.entries =
               [k \in 1..self.num_cycles |-> <<"worker", k - 1>>]

C2_Witness ==
    /\ pc = "done" /\ HRMCall
    /\ self.num_cycles = MaxCycles
    /\ self.num_layers >= 1
    /\ call.mask # <<>>

\* C3: a forward call runs every one of its num_cycles cycles and then ends
\* Finalized, by projecting the final controller state to the output; it
\* never ends in another way.
C3_AllCyclesThenFinalized ==
    (HRMEnded /\ self.num_cycles >= 1 /\ PlainCall) =>
        /\ pc = "done"
        /\ cycle = self.num_cycles
        /\ steps[Len(steps)].op = "output"
        /\ steps[Len(steps)].ins = <<<<"norm", self.num_cycles - 1>>>>

\* The statements of one cycle, in order.
CycleOps(use_attention) ==
    IF use_attention
    THEN <<"controller", "project", "worker", "bridge", "feedback", "norm">>
    ELSE <<"controller", "project", "worker", "feedback", "norm">>

\* The operands the claim gives statement op of cycle k.
ClaimedOperands(op, k, use_attention) ==
    LET enterC == IF k = 0 THEN <<"zeros", 0>> ELSE <<"norm", k - 1>>
        enterW == IF k = 0 THEN <<"zeros", 0>>
                  ELSE IF use_attention THEN <<"bridge_worker", k - 1>>
                  ELSE <<"worker", k - 1>>
        postC == IF use_attention THEN <<"bridge_controller", k>>
                 ELSE <<"controller", k>>
        postW == IF use_attention THEN <<"bridge_worker", k>> ELSE <<"worker", k>>
    IN  CASE op = "controller" -> <<<<"input", 0>>, enterC>>
          [] op = "project" -> <<<<"controller", k>>>>
          [] op = "worker" -> <<<<"project", k>>, enterW>>
          [] op = "bridge" -> <<<<"controller", k>>, <<"worker", k>>>>
          [] op = "feedback" -> <<postC, postW>>
          [] op = "norm" -> <<<<"feedback", k>>>>
          [] OTHER -> <<enterC>>

\* C4: within every cycle the statements run in the order Controller.step,
\* projection, Worker.step, bridge fusion (when the bridge is enabled),
\* feedback, layer normalisation, each on the operands the claim names; the
\* controller state entering cycle k+1 is the layer-normalised one.
C4_CycleOrder ==
    HRMCall =>
        LET ops == CycleOps(self.use_attention)
            n == Len(ops)
        IN  \A i \in 1..Len(steps) :
                LET k == (i - 1) \div n
                IN  IF k < self.num_cycles
                    THEN /\ steps[i].cycle = k
                         /\ steps[i].op = ops[((i - 1) % n) + 1]
                         /\ steps[i].ins =
                                ClaimedOperands(steps[i].op, k, self.use_attention)
                    ELSE /\ steps[i].op = "output"
                         /\ i = Len(steps)

C4_Witness ==
    /\ HRMCall /\ self.use_attention
    /\ pc = "project" /\ cycle = 1
    /\ Len(steps) = Len(CycleOps(TRUE)) + 1
    /\ steps[Len(steps)].ins = <<<<"input", 0>>, <<"norm", 0>>>>

\* C5: constructing a same-dimension attention block, or a Controller or an
\* HRM that builds one, with a head count that does not divide the dimension
\* ends in an error of the constructor, and no object exists to call.
NonDividing(dim, num_heads) == num_heads = 0 \/ dim % num_heads # 0

C5_HeadsMustDivide ==
    LET bad ==
          \/ /\ call.op \in {"MultiHeadAttention.__init__",
                             "AttnMultiHeadAttention.__init__"}
             /\ NonDividing(call.dim, call.num_heads)
          \/ /\ call.op = "Controller.__init__"
             /\ call.num_layers >= 1
             /\ NonDividing(call.dim, call.num_heads)
          \/ /\ call.op = "HRM.__init__"
             /\ call.num_layers >= 1
             /\ NonDividing(call.controller_dim, DefaultNumHeads)
    IN  bad => /\ pc = "ctor_failed"
               /\ self = None
               /\ err.type \in {"AssertionError", "ZeroDivisionError"}

C5_Witness ==
    /\ pc = "ctor_failed"
    /\ call.op = "MultiHeadAttention.__init__"
    /\ call.dim = 10 /\ call.num_heads = 4
    /\ err.type = "AssertionError"

HRMBuilt == call.op = "HRM.__init__" /\ call.use_attention

\* C6 (as stated): every constructed HRM with the bridge enabled has
\* controller_dim and worker_dim each divisible by the head count used
\* against it (8 in the controller, 8 in the bridge).
C6_BothDimsDivisible ==
    (HRMBuilt /\ pc = "idle") =>
        /\ call.controller_dim % DefaultNumHeads = 0
        /\ call.worker_dim % BridgeNumHeads = 0

\* C6 (amended): an HRM with the bridge enabled is constructed only if the
\* smaller of controller_dim and worker_dim is at least the bridge's head
\* count (its head dimension floor(min / 8) is positive) and, when it has
\* at least one controller layer, controller_dim is divisible by the
\* controller's head count; a configuration violating either is rejected.
\* worker_dim need not be divisible by the head count.
C6_HeadConfigOfBuiltHRM ==
    HRMBuilt =>
        LET fits == /\ Min2(call.controller_dim, call.worker_dim) >= BridgeNumHeads
                    /\ call.num_layers >= 1 =>
                           call.controller_dim % DefaultNumHeads = 0
        IN  /\ pc = "idle" => fits
            /\ ~fits => pc = "ctor_failed" /\ self = None

C6_Witness ==
    /\ HRMBuilt /\ pc = "idle"
    /\ call.num_layers >= 1
    /\ call.worker_dim % BridgeNumHeads # 0

\* C7: a cross-dimension attention block has head dimension
\* floor(min(queryDim, keyDim, valueDim) / headCount) and its constructor
\* fails exactly when that is <= 0, i.e. when the smallest dimension is
\* below the head count; so the bridge, and an HRM that builds it, fails to
\* construct whenever min(controller_dim, worker_dim) < 8.
C7_CrossHeadDim ==
    /\ (call.op = "CrossModuleAttention.__init__" /\ call.num_heads >= 1) =>
          LET m == Min3(call.query_dim, call.key_dim, call.value_dim)
          IN  /\ pc = "ctor_failed" <=> m < call.num_heads
              /\ pc = "ctor_failed" => err.type = "AssertionError"
              /\ pc = "idle" =>
                    /\ self.head_dim > 0
                    /\ self.head_dim * call.num_heads <= m
                    /\ m < (self.head_dim + 1) * call.num_heads
    /\ (call.op = "HierarchicalAttention.__init__" /\ call.num_heads >= 1) =>
          (pc = "ctor_failed" <=>
              Min2(call.controller_dim, call.worker_dim) < call.num_heads)
    /\ (HRMBuilt /\ Min2(call.controller_dim, call.worker_dim) < BridgeNumHeads) =>
          pc = "ctor_failed"

C7_Witness ==
    /\ HRMBuilt /\ pc = "ctor_failed"
    /\ call.controller_dim % DefaultNumHeads = 0
    /\ call.worker_dim < BridgeNumHeads
    /\ err = Raise("AssertionError", "CrossModuleAttention.__init__")

\* C8: once its cycles have run, a forward call with the retain-attention
\* flag set and the bridge enabled completes and returns the stacked
\* attention diagnostics, one entry per cycle; with the flag unset or the
\* bridge disabled the result has no attention-weight entry.
C8_AttentionDiagnostics ==
    (HRMEnded /\ self.num_cycles >= 1 /\ cycle = self.num_cycles) =>
        IF call.return_attention /\ self.use_attention
        THEN /\ pc = "done"
             /\ "attention_weights" \in result.keys
             /\ Len(attention_weights) = self.num_cycles
        ELSE pc = "done" => "attention_weights" \notin result.keys

\* C9: a forward call given a mask of shape (batch, seqLen), seqLen > 1,
\* with the bridge enabled has the mask accepted by the bridge's length-1
\* attention, and the bridge returns states of the dimensions it was given.
C9_MaskAcceptedByBridge ==
    (HRMCall /\ self.use_attention /\ call.mask # <<>> /\ call.seq_len > 1) =>
        /\ ~(pc = "failed" /\ err.at = "CrossModuleAttention.forward")
        /\ pc = "feedback" =>
              /\ controller_state.shape = <<call.batch, self.controller_dim>>
              /\ worker_state.shape = <<call.batch, self.worker_dim>>

\* The mask entry that decides position k of the filled score row.
MaskAt(k) == IF Len(attn.mask) = 1 THEN attn.mask[1] ELSE attn.mask[k]
Masked ==
    /\ call.op = "attention.forward"
    /\ pc \in {"softmax", "done"} /\ attn # None /\ call.mask # <<>>

\* C10 (as stated): in every attention call with a mask, every position the
\* mask marks ignore gets weight 0 before dropout, for every mask, also one
\* that marks every position ignore.
C10_IgnoredKeysGetZero ==
    Masked =>
        \A k \in 1..Len(attn.filled) :
            MaskAt(k) = 0 => attn.attention_weights.num[k] = 0

\* C10 (amended): in every attention call with a mask that marks at least
\* one position of the batch element attend, every position marked ignore
\* gets weight 0 before dropout (and the weights of the row sum to 1).
C10_IgnoredKeysGetZeroIfOneAttends ==
    (Masked /\ \E j \in 1..Len(attn.filled) : MaskAt(j) = 1) =>
        /\ \A k \in 1..Len(attn.filled) :
              MaskAt(k) = 0 => attn.attention_weights.num[k] = 0
        /\ attn.attention_weights.den > 0
        /\ SeqSum(attn.attention_weights.num) = attn.attention_weights.den

C10_Witness ==
    /\ Masked /\ pc = "done"
    /\ self.cls = "MultiHeadAttention"
    /\ Len(attn.filled) >= 2
    /\ \E j, k \in 1..Len(attn.filled) :
          /\ MaskAt(j) = 1 /\ MaskAt(k) = 0
          /\ attn.attention_weights.num[k] = 0
          /\ attn.attention_weights.num[j] > 0

----------------------------------------------------------------------------
(* Properties of the values: batch rows, positions, repeated calls.         *)

\* Everything the results of a call hold for batch element b: output,
\* final states and the two histories.
RowLeaves(b) ==
    flow.output[b] \cup flow.controller_state[b] \cup flow.worker_state[b]
    \cup UNION {flow.controller_states[k][b] : k \in 1..Len(flow.controller_states)}
    \cup UNION {flow.worker_states[k][b] : k \in 1..Len(flow.worker_states)}

\* C11: batch elements are independent and order-insensitive: in a completed
\* forward call the results for a batch element are computed from that
\* element's input alone, by the same function at every batch index (so a
\* permutation of the batch permutes the results); nothing in them comes
\* from another element or from the element's index in the batch.
C11_BatchRowsIndependent ==
    (pc = "done" /\ HRMCall) =>
        \A b \in 1..call.batch :
            \A l \in RowLeaves(b) :
                /\ l[1] = "x" => l[2] = b
                /\ l[1] = "pe" => \A b2 \in 1..call.batch : l \in RowLeaves(b2)

\* The rows of the positional table added at batch element b, position t.
AddedEncoding(b, t) == {l \in flow.x[b][t] : l[1] = "pe"}

\* C12: with positional encoding enabled, the vector added to the projected
\* input at batch element b and sequence position t is the table row of
\* position t (positions count from 0), for every b and t, whose entry i is
\* the sine (i even) or cosine (i odd) of the position; it depends on t only.
C12_EncodingOfPosition ==
    (HRMCall /\ self.use_positional_encoding) =>
        \A b \in 1..call.batch, t \in 1..call.seq_len :
            /\ AddedEncoding(b, t) = {PeLeaf(t - 1)}
            /\ \A i \in 0..(self.controller_dim - 1) :
                  PositionalEncodingEntry(t - 1, i) =
                      [fn |-> IF i % 2 = 0 THEN "sin" ELSE "cos",
                       position |-> t - 1, frequency |-> i \div 2]

\* C13: a second forward call on the same instance with the arguments of
\* the first starts from zero controller and worker states and empty
\* histories, and ends as the first did: same outcome, same output, same
\* histories and final states, computed from the same inputs.
C13_SecondCallSameAsFirst ==
    (prior # None /\ HRMCall) =>
        /\ call = prior.call
        /\ (pc = "controller" /\ cycle = 0) =>
              /\ controller_state.tag = <<"zeros", 0>>
              /\ worker_state.tag = <<"zeros", 0>>
              /\ controller_state.shape = <<call.batch, self.controller_dim>>
              /\ worker_state.shape = <<call.batch, self.worker_dim>>
              /\ \A b \in 1..call.batch :
                    flow.controller_state[b] = {} /\ flow.worker_state[b] = {}
              /\ controller_states = <<>> /\ worker_states = <<>>
        /\ pc \in {"done", "failed"} =>
              /\ pc = prior.pc
              /\ err = prior.err
              /\ result = prior.result
              /\ flow = prior.flow

C13_Witness ==
    /\ prior # None /\ HRMCall /\ pc = "done"
    /\ prior.pc = "done"
    /\ self.num_layers >= 1 /\ self.num_cycles = MaxCycles
    /\ call.batch = 2 /\ call.mask # <<>>
    /\ \E l \in flow.output[1] : l[1] = "x"

\* C14: each setting given to the HRM constructor - head count, gated
\* attention, convolution branch, recurrent branch, cross-attention term -
\* is the setting of the corresponding sub-module of the instance.
C14_SettingsReachSubmodules ==
    (call.op = "HRM.__init__" /\ pc = "idle") =>
        /\ self.controller.num_heads = call.kwargs.num_heads
        /\ self.controller.use_gated_attention = call.kwargs.use_gated_attention
        /\ self.worker.use_conv = call.kwargs.use_conv
        /\ self.worker.use_gru = call.kwargs.use_gru
        /\ \A i \in 1..self.num_layers :
              /\ self.worker.worker_layers[i].use_conv = call.kwargs.use_conv
              /\ self.worker.worker_layers[i].use_gru = call.kwargs.use_gru
              /\ self.controller.self_attention[i].use_gated =
                     call.kwargs.use_gated_attention
        /\ self.use_attention =>
              self.attention.use_cross_attention = call.kwargs.use_cross_attention

\* C15: with the attention bridge disabled a forward call (num_cycles >= 1)
\* still completes with output (batch, inputDim) and final states of the
\* configured dimensions; in every cycle the feedback step takes the
\* outputs of the controller and worker steps unchanged, and the instance
\* holds no bridge module.
C15_CompletesWithoutBridge ==
    (HRMCall /\ ~self.use_attention /\ self.num_cycles >= 1) =>
        /\ self.attention = None
        /\ \A i \in 1..Len(steps) :
              /\ steps[i].op # "bridge"
              /\ steps[i].op = "feedback" =>
                    steps[i].ins = <<<<"controller", steps[i].cycle>>,
                                     <<"worker", steps[i].cycle>>>>
        /\ pc # "failed"
        /\ pc = "done" =>
              /\ result.output.shape = <<call.batch, self.input_dim>>
              /\ result.final_controller_state.shape =
                     <<call.batch, self.controller_dim>>
              /\ result.final_worker_state.shape = <<call.batch, self.worker_dim>>

\* The shapes of the weights HRM.__init__ creates itself (lines 62-95).
HRMParameters(m) ==
    [input_projection |-> <<m.controller_dim, m.input_dim>>,
     controller_to_worker |-> <<m.worker_dim, m.controller_dim>>,
     worker_to_controller |-> <<m.controller_dim, m.worker_dim>>,
     output_projection |-> <<m.input_dim, m.controller_dim>>,
     layer_norm |-> <<m.controller_dim>>]

----------------------------------------------------------------------------
(* Properties of the worker layer, the gates and the mask.                  *)

WorkerLayerCalled == call.op = "WorkerLayer.forward" /\ self.cls = "WorkerLayer"

\* C17: in WorkerLayer.forward with the convolution branch enabled, for
\* every dim >= 1 and input (batch, dim), the tensor handed to the
\* convolution has shape (batch, dim, 1), the convolution accepts it and
\* the branch output has shape (batch, dim).
C17_ConvInputShape ==
    (WorkerLayerCalled /\ self.use_conv) =>
        /\ attn.x_conv = <<call.batch, self.dim, 1>>
        /\ attn.conv_shape = <<call.batch, self.dim>>
        /\ pc # "failed"

GateCalled == call.op = "gate" /\ pc = "done"

\* C18 (as stated): every gate - the bridge's controller and worker gates,
\* the worker layer gate, the controller self-attention gate and the
\* controller feed-forward gate - lies in [0,1] and weighs two candidates
\* as gate*A + (1-gate)*B.
C18_EveryGateConvex ==
    GateCalled =>
        /\ attn.gate \in 0..GateScale
        /\ Len(attn.terms) = 2
        /\ attn.terms[1][1] = attn.gate
        /\ attn.terms[2][1] = GateScale - attn.gate
        /\ attn.out = attn.terms[1][1] * attn.terms[1][2]
                      + attn.terms[2][1] * attn.terms[2][2]

\* C18 (amended): every gate lies in [0,1]; the bridge's two gates, the
\* worker layer gate and the self-attention gate weigh two candidates as
\* gate*A + (1-gate)*B, the weights summing to 1; the feed-forward gate
\* multiplies its single candidate, gate * gelu(up), with no (1-gate) term.
C18_GatesBoundedConvexButFeedForward ==
    GateCalled =>
        /\ attn.gate \in 0..GateScale
        /\ IF call.site = "feed_forward"
           THEN /\ attn.terms = <<<<attn.gate, call.a>>>>
                /\ attn.out = attn.gate * call.a
           ELSE /\ attn.terms = <<<<attn.gate, call.a>>,
                                  <<GateScale - attn.gate, call.b>>>>
                /\ attn.terms[1][1] + attn.terms[2][1] = GateScale
                /\ attn.out = attn.gate * call.a + (GateScale - attn.gate) * call.b
                /\ call.a <= call.b =>
                      GateScale * call.a <= attn.out /\ attn.out <= GateScale * call.b

C18_Witness ==
    /\ GateCalled /\ call.site = "bridge_controller"
    /\ attn.gate \notin {0, GateScale}
    /\ call.a # call.b

C20_IgnoredInputNoInfluence ==
    (pc = "done" /\ HRMCall /\ call.mask # <<>>) =>
        \A b \in 1..call.batch, t \in call.ignored :
            InputLeaf(b, t) \notin RowLeaves(b)

----------------------------------------------------------------------------
(* Properties of the histories and of a model with no cycle.                *)

\* C23: entry k of the controller (worker) history is the state returned
\* by the controller (worker) step of cycle k, recorded before the bridge,
\* the feedback and the normalisation of that cycle; hence the last
\* controller entry is not the returned final controller state, and the
\* last worker entry is the returned final worker state exactly when the
\* bridge is disabled.
C23_HistoryHoldsStepOutputs ==
    HRMCall =>
        /\ \A k \in 1..Len(controller_states) :
              /\ controller_states[k].tag = <<"controller", k - 1>>
              /\ \E i \in 1..Len(steps) :
                    /\ steps[i].op = "controller" /\ steps[i].cycle = k - 1
                    /\ steps[i].out = <<controller_states[k].tag>>
                    /\ \A j \in 1..i :
                          steps[j].cycle = k - 1 =>
                              steps[j].op \notin {"bridge", "feedback", "norm"}
        /\ \A k \in 1..Len(worker_states) :
              /\ worker_states[k].tag = <<"worker", k - 1>>
              /\ \E i \in 1..Len(steps) :
                    /\ steps[i].op = "worker" /\ steps[i].cycle = k - 1
                    /\ steps[i].out = <<worker_states[k].tag>>
                    /\ \A j \in 1..i :
                          steps[j].cycle = k - 1 =>
                              steps[j].op \notin {"bridge", "feedback", "norm"}
        /\ pc = "done" =>
              LET n == self.num_cycles
              IN  /\ result.controller_states.entries =
                         [k \in 1..n |-> <<"controller", k - 1>>]
                  /\ result.worker_states.entries =
                         [k \in 1..n |-> <<"worker", k - 1>>]
                  /\ result.final_controller_state.tag = <<"norm", n - 1>>
                  /\ result.final_controller_state.tag
                         # result.controller_states.entries[n]
                  /\ (result.final_worker_state.tag
                         = result.worker_states.entries[n]) <=> ~self.use_attention

C23_Witness ==
    /\ HRMCall /\ pc = "done"
    /\ self.use_attention /\ self.num_cycles = 2
    /\ result.worker_states.entries[2] = <<"worker", 1>>
    /\ result.final_worker_state.tag = <<"bridge_worker", 1>>

\* C24: the constructor does not validate num_cycles: a configuration with
\* num_cycles = 0 is constructed whenever the same configuration with one
\* cycle is, and its forward call executes no cycle and then fails when
\* stacking the empty history; it never returns a result.
C24_ZeroCyclesFailsAtStack ==
    /\ (call.op = "HRM.__init__" /\ call.num_cycles = 0) =>
          /\ \A input_dim \in InputDims :
                (pc = "ctor_failed") <=>
                    HRM__init__(input_dim, call.controller_dim, call.worker_dim,
                                call.num_layers, 1, call.use_attention,
                                call.use_positional_encoding,
                                call.kwargs).raised # NoErr
          /\ pc = "idle" => self.num_cycles = 0
    /\ (HRMCall /\ self.num_cycles = 0) =>
          /\ steps = <<>> /\ cycle = 0
          /\ controller_states = <<>> /\ worker_states = <<>>
          /\ pc \in {"output", "failed"}
          /\ pc = "failed" =>
                /\ err = Raise("RuntimeError", "torch.stack")
                /\ result = None

C24_Witness ==
    /\ HRMCall /\ self.num_cycles = 0
    /\ pc = "failed" /\ err.at = "torch.stack"
    /\ controller_state.tag = <<"zeros", 0>>

----------------------------------------------------------------------------
(* Properties of the bridge called on two states.                           *)

BridgeCalled ==
    /\ call.op = "HierarchicalAttention.forward" /\ pc = "done"
    /\ self.cls = "HierarchicalAttention"

\* The bridge of the call with cross-attention switched on or off, and what
\* it computes from the call's arguments when the cross block scores row.
BridgeWith(use_cross_attention) ==
    HierarchicalAttention__init__(self.controller_dim, self.worker_dim,
                                  self.num_heads, use_cross_attention)
BridgeValuesWith(use_cross_attention, row) ==
    HierarchicalAttentionValues(BridgeWith(use_cross_attention),
                                [call.rows EXCEPT !.cross = row], call.maskrow)

\* C21: with cross-attention disabled in the bridge the worker path result
\* is the same as with it enabled, the controller path is the normalised
\* gated blend without the additive cross term (which is there when
\* enabled), the returned attention weights hold only the two directional
\* entries, and in both settings the output states have the dimensions of
\* the input states.
C21_CrossDisabledFrame ==
    BridgeCalled =>
        /\ attn = BridgeValuesWith(self.use_cross_attention, call.rows.cross)
        /\ \A row \in Rows(1) :
              LET on == BridgeValuesWith(TRUE, row)
                  off == BridgeValuesWith(FALSE, row)
              IN  /\ off.worker_output = on.worker_output
                  /\ off.controller_output.added = <<>>
                  /\ Len(on.controller_output.added) = 1
                  /\ on.controller_output.added[1].block = "cross_attention"
                  /\ off.controller_output =
                         [on.controller_output EXCEPT !.added = <<>>]
                  /\ off.controller_output.norm = "controller_norm"
                  /\ DOMAIN off.attention_weights =
                         {"controller_to_worker", "worker_to_controller"}
                  /\ DOMAIN on.attention_weights =
                         DOMAIN off.attention_weights \cup {"cross_attention"}
        /\ ~self.use_cross_attention =>
              result.attention_weights.keys =
                  {"controller_to_worker", "worker_to_controller"}
        /\ \A u \in BOOLEAN :
              HierarchicalAttentionForward(BridgeWith(u),
                  <<call.batch, self.controller_dim>>,
                  <<call.batch, self.worker_dim>>, call.mask)
              = <<<<call.batch, self.controller_dim>>,
                  <<call.batch, self.worker_dim>>>>
        /\ result.controller_output.shape = <<call.batch, self.controller_dim>>
        /\ result.worker_output.shape = <<call.batch, self.worker_dim>>

C21_Witness ==
    /\ BridgeCalled /\ ~self.use_cross_attention
    /\ self.controller_dim # self.worker_dim
    /\ attn.controller_output.added = <<>>
    /\ DOMAIN attn.attention_weights =
           {"controller_to_worker", "worker_to_controller"}

\* C22: inside the bridge, without a mask, every attention weight row sums
\* to 1 and, the key sequence having length 1, every weight is exactly 1;
\* the attended value of each direction is the projected value of the
\* key/value-side state and is the same for every query-side state (the
\* query enters through the score alone).
C22_BridgeWeightsAreOne ==
    (BridgeCalled /\ call.mask = <<>>) =>
        /\ \A k \in DOMAIN attn.attention_weights :
              LET w == attn.attention_weights[k]
              IN  /\ Len(w.num) = 1
                  /\ w.den > 0
                  /\ SeqSum(w.num) = w.den
                  /\ w.num[1] = w.den
        /\ \A c2w \in Rows(1), w2c \in Rows(1), cross \in Rows(1) :
              LET other == HierarchicalAttentionValues(self,
                               [c2w |-> c2w, w2c |-> w2c, cross |-> cross], <<>>)
              IN  /\ other.controller_output = attn.controller_output
                  /\ other.worker_output = attn.worker_output
        /\ attn.worker_output.blend[1].attended =
              <<[num |-> attn.attention_weights["controller_to_worker"].den,
                 den |-> attn.attention_weights["controller_to_worker"].den,
                 value |-> <<"value_proj", "controller_state", 1>>]>>
        /\ attn.controller_output.blend[1].attended =
              <<[num |-> attn.attention_weights["worker_to_controller"].den,
                 den |-> attn.attention_weights["worker_to_controller"].den,
                 value |-> <<"value_proj", "worker_state", 1>>]>>

C22_Witness ==
    /\ BridgeCalled /\ call.mask = <<>>
    /\ self.num_heads > 1 /\ self.use_cross_attention
    /\ call.rows.c2w # call.rows.w2c
    /\ attn.attention_weights["cross_attention"].num
           = <<attn.attention_weights["cross_attention"].den>>

====
